---- MODULE Spec2Model ----
(***************************************************************************)
(* A model of src/app.py, the AI Business Decision Simulator: a Streamlit  *)
(* script that is run top to bottom, and run again whenever a widget       *)
(* changes.  One run reads the widgets, derives the baseline statistics of *)
(* the cached dataset, seeds the global numpy generator, samples           *)
(* simulation_runs profits, reduces them to the risk metrics and selects   *)
(* the strategic verdict.                                                  *)
(*                                                                         *)
(* Numbers.  Python floats are modelled as exact rationals [n, d] in       *)
(* lowest terms with d > 0; the float NaN is the pair 0/0.  Rounding of    *)
(* the binary representation is not modelled.  The one irrational          *)
(* operation, the square root inside the standard deviation, is taken      *)
(* down to the nearest integer.                                            *)
(***************************************************************************)
EXTENDS Integers, Sequences, FiniteSets

(***************************************************************************)
(* Bounds of the model.                                                    *)
(***************************************************************************)
\* largest number of rows of synthetic_business_data.csv
MaxRows == 2
\* the selectbox of simulation runs offers 1000, 3000 and 5000; the model
\* scales the list of options down to 1 .. MaxRuns
MaxRuns == 3
\* the period of the modelled generator (MT19937: 2^19937 - 1)
RngPeriod == 3

(***************************************************************************)
(* Floats as rationals.                                                    *)
(***************************************************************************)
Abs(x) == IF x < 0 THEN -x ELSE x

RECURSIVE GCD(_, _)
GCD(a, b) == IF b = 0 THEN a ELSE GCD(b, a % b)

LCM(a, b) == (a \div GCD(a, b)) * b

NaN == [n |-> 0, d |-> 0]

IsNaN(x) == x.d = 0

\* the rational num/den in lowest terms, den # 0
Rat(num, den) ==
    LET g == GCD(Abs(num), Abs(den))
        s == IF den < 0 THEN -1 ELSE 1
    IN  [n |-> s * (num \div g), d |-> s * (den \div g)]

Int2R(k) == [n |-> k, d |-> 1]

Zero == Int2R(0)

RAdd(a, b) ==
    IF IsNaN(a) \/ IsNaN(b) THEN NaN
    ELSE LET l == LCM(a.d, b.d)
         IN  Rat(a.n * (l \div a.d) + b.n * (l \div b.d), l)

RNeg(a) == IF IsNaN(a) THEN NaN ELSE [n |-> -a.n, d |-> a.d]

RSub(a, b) == RAdd(a, RNeg(b))

RMul(a, b) ==
    IF IsNaN(a) \/ IsNaN(b) THEN NaN
    ELSE LET g1 == GCD(Abs(a.n), b.d)
             g2 == GCD(Abs(b.n), a.d)
         IN  Rat((a.n \div g1) * (b.n \div g2), (a.d \div g2) * (b.d \div g1))

\* a / b; a float division by zero gives NaN here (0/0), and the model never
\* divides a non-zero number by zero
RDiv(a, b) ==
    IF IsNaN(a) \/ IsNaN(b) \/ b.n = 0 THEN NaN
    ELSE RMul(a, Rat(b.d, b.n))

RAbs(a) == IF IsNaN(a) THEN NaN ELSE [n |-> Abs(a.n), d |-> a.d]

\* a < b; every comparison with NaN is false
RLt(a, b) ==
    /\ ~IsNaN(a)
    /\ ~IsNaN(b)
    /\ LET l == LCM(a.d, b.d)
       IN  a.n * (l \div a.d) < b.n * (l \div b.d)

RGt(a, b) == RLt(b, a)

\* a != b as Python evaluates it: NaN differs from everything
RNe(a, b) == IsNaN(a) \/ IsNaN(b) \/ a # b

\* the largest integer whose square does not exceed a (a >= 0)
RECURSIVE ISqrtFrom(_, _)
ISqrtFrom(a, k) ==
    IF RLt(a, Int2R((k + 1) * (k + 1))) THEN k ELSE ISqrtFrom(a, k + 1)

RSqrt(a) == IF IsNaN(a) THEN NaN ELSE Int2R(ISqrtFrom(a, 0))

\* Python max(x, 0): the first argument unless the second is greater
Max0(x) == IF RGt(Zero, x) THEN Zero ELSE x

(***************************************************************************)
(* pandas and numpy reductions.                                            *)
(***************************************************************************)
RECURSIVE RSum(_)
RSum(s) == IF s = <<>> THEN Zero ELSE RAdd(s[1], RSum(Tail(s)))

\* Series.mean() and ndarray.mean(): the sum over the count
Mean(s) == RDiv(RSum(s), Int2R(Len(s)))

\* Series.std(): the sample standard deviation (ddof = 1), NaN for fewer
\* than two rows
Std(s) ==
    IF Len(s) < 2 THEN NaN
    ELSE LET m  == Mean(s)
             sq == [k \in 1 .. Len(s) |-> RMul(RSub(s[k], m), RSub(s[k], m))]
         IN  RSqrt(RDiv(RSum(sq), Int2R(Len(s) - 1)))

RECURSIVE Insert(_, _)
Insert(x, s) ==
    IF s = <<>> THEN <<x>>
    ELSE IF RLt(s[1], x) THEN <<s[1]>> \o Insert(x, Tail(s))
    ELSE <<x>> \o s

RECURSIVE Sorted(_)
Sorted(s) == IF s = <<>> THEN <<>> ELSE Insert(s[1], Sorted(Tail(s)))

\* np.percentile(a, q), method "linear": the value at the virtual index
\* q/100 * (len - 1) of the sorted array, interpolated between its two
\* neighbours; NaN when the array holds a NaN
Percentile(a, q) ==
    IF \E k \in 1 .. Len(a) : IsNaN(a[k]) THEN NaN
    ELSE LET s     == Sorted(a)
             len   == Len(a)
             lo    == (q * (len - 1)) \div 100
             hi    == IF lo + 1 > len - 1 THEN len - 1 ELSE lo + 1
             gamma == RSub(Rat(q * (len - 1), 100), Int2R(lo))
         IN  RAdd(s[lo + 1], RMul(RSub(s[hi + 1], s[lo + 1]), gamma))

\* (a loss probability that counts a profit of zero as a loss)
LossProbabilityCountsZero(a) ==
    LET below == [k \in 1 .. Len(a) |-> IF RGt(a[k], Zero) THEN Zero ELSE Int2R(1)]
    IN  RMul(Mean(below), Int2R(100))

\* (a loss probability left as a fraction)
LossProbabilityFraction(a) ==
    LET below == [k \in 1 .. Len(a) |-> IF RLt(a[k], Zero) THEN Int2R(1) ELSE Zero]
    IN  Mean(below)

\* (profits < 0).mean() * 100
LossProbability(a) ==
    LET below == [k \in 1 .. Len(a) |-> IF RLt(a[k], Zero) THEN Int2R(1) ELSE Zero]
    IN  RMul(Mean(below), Int2R(100))

(***************************************************************************)
(* The dataset: the rows of synthetic_business_data.csv that the script    *)
(* reads (Price, Units_Sold, Total_Cost, Profit), as integers.             *)
(***************************************************************************)
RecordChoices ==
    { [Price |-> 2, Units_Sold |-> 1, Total_Cost |-> 9, Profit |-> -7],
      [Price |-> 2, Units_Sold |-> 9, Total_Cost |-> 1, Profit |-> 10] }

Datasets == UNION { [1 .. k -> RecordChoices] : k \in 1 .. MaxRows }

Column(data, name) == [k \in 1 .. Len(data) |-> Int2R(data[k][name])]

(***************************************************************************)
(* The global numpy generator: a state in 0 .. RngPeriod - 1 that every    *)
(* draw advances, and the standard normal deviate each state yields.       *)
(***************************************************************************)
Deviates == {-2, 1}

RngStates == 0 .. RngPeriod - 1

\* the generator state that seed 42 fixes
SeededState == 0

\* (a seeding that leaves the generator where it was)
RandomSeedNoReset(state) == state

\* np.random.seed(42): whatever state the generator was in, it is put in
\* the state the seed fixes
RandomSeed(state) == SeededState

\* the state after n draws
Advance(state, n) == (state + n) % RngPeriod

(***************************************************************************)
(* The widgets of the sidebar.                                             *)
(***************************************************************************)
PriceSliderValues == {-30, 5}

MarketingSliderValues == {10, 50}

\* the economic shock slider, in hundredths
ShockSliderValues == {-50, 0}

RiskOptions == {"Low", "Medium", "High"}

SimulationOptions == 1 .. MaxRuns

WidgetStates ==
    [price : PriceSliderValues, marketing : MarketingSliderValues,
     shock : ShockSliderValues, risk : RiskOptions, runs : SimulationOptions]

DefaultWidgets ==
    [price |-> 5, marketing |-> 10, shock |-> 0, risk |-> "Low", runs |-> 1]

(***************************************************************************)
(* State.  df, the deviates of the generator and the generator's state     *)
(* live in the server process and outlast a run of the script; the other   *)
(* variables are the script's names, unbound when a run starts.            *)
(***************************************************************************)
VARIABLES
    pc,               \* the section of the script that runs next
    df,               \* the cached dataset
    deviates,         \* the deviate each generator state yields
    rng,              \* the state of the global numpy generator
    widgets,          \* the values the sidebar widgets hold
    price_change, marketing_boost, economic_shock, risk_appetite,
    simulation_runs,
    base_price, base_units, base_cost,
    adjusted_price, adjusted_units, units_std, cost_std,
    i,                \* iterations of the sampling loop completed
    profits,
    expected_profit, worst_case, best_case, loss_probability, VaR_95,
    verdict, explanation,
    insight,          \* the two numbers of the closing insight
    found             \* history: the generator state this run found at line 91

inputs  == <<price_change, marketing_boost, economic_shock, risk_appetite,
             simulation_runs>>
bases   == <<base_price, base_units, base_cost, adjusted_price,
             adjusted_units, units_std, cost_std>>
metrics == <<expected_profit, worst_case, best_case, loss_probability, VaR_95>>
outcome == <<verdict, explanation, insight>>
process == <<df, deviates>>

vars == <<pc, rng, widgets, inputs, bases, i, profits, metrics, outcome,
          process, found>>

\* a name the running script has not bound yet
Unbound == [n |-> 0, d |-> -1]

\* the names of a run that has not started
FreshNamespace ==
    /\ price_change = Unbound /\ marketing_boost = Unbound
    /\ economic_shock = Unbound /\ risk_appetite = "" /\ simulation_runs = 0
    /\ base_price = Unbound /\ base_units = Unbound /\ base_cost = Unbound
    /\ adjusted_price = Unbound /\ adjusted_units = Unbound
    /\ units_std = Unbound /\ cost_std = Unbound
    /\ i = 0 /\ profits = <<>>
    /\ expected_profit = Unbound /\ worst_case = Unbound
    /\ best_case = Unbound /\ loss_probability = Unbound /\ VaR_95 = Unbound
    /\ verdict = "" /\ explanation = "" /\ insight = <<>>

\* The first run of a fresh server: the dataset file and the generator's
\* deviates are whatever they are, the generator is in the state the
\* operating system's entropy gave it, the widgets hold their defaults.
Init ==
    /\ pc = "inputs"
    /\ df \in Datasets
    /\ deviates \in [RngStates -> Deviates]
    /\ rng \in RngStates
    /\ widgets = DefaultWidgets
    /\ FreshNamespace
    /\ found = 0

(***************************************************************************)
(* The sections of the script.                                             *)
(***************************************************************************)
\* the sidebar: each widget returns the value it holds
StrategicInputs ==
    /\ pc = "inputs"
    /\ price_change' = Rat(widgets.price, 100)
    /\ marketing_boost' = Rat(widgets.marketing, 100)
    /\ economic_shock' = Rat(widgets.shock, 100)
    /\ risk_appetite' = widgets.risk
    /\ simulation_runs' = widgets.runs
    /\ pc' = "scenario"
    /\ UNCHANGED <<rng, widgets, bases, i, profits, metrics, outcome, process,
                   found>>

\* the baseline of the dataset and the adjustments of the scenario
ScenarioEngine ==
    /\ pc = "scenario"
    /\ base_price' = Mean(Column(df, "Price"))
    /\ base_units' = Mean(Column(df, "Units_Sold"))
    /\ base_cost' = Mean(Column(df, "Total_Cost"))
    /\ adjusted_price' = RMul(base_price', RAdd(Int2R(1), price_change))
    /\ adjusted_units' =
           RMul(base_units', RAdd(RAdd(Int2R(1), marketing_boost), economic_shock))
    /\ units_std' = Std(Column(df, "Units_Sold"))
    /\ cost_std' = Std(Column(df, "Total_Cost"))
    /\ pc' = "seed"
    /\ UNCHANGED <<rng, widgets, inputs, i, profits, metrics, outcome, process,
                   found>>

\* np.random.seed(42); profits = []
Seed ==
    /\ pc = "seed"
    /\ rng' = RandomSeed(rng)
    /\ profits' = <<>>
    /\ i' = 0
    /\ pc' = "loop"
    /\ found' = rng
    /\ UNCHANGED <<widgets, inputs, bases, metrics, outcome, process>>

\* np.random.normal(loc, scale) drawn in generator state `state`
Normal(loc, scale, state) == RAdd(loc, RMul(scale, Int2R(deviates[state])))

\* (a body that draws the cost before the units)
LoopBodyCostFirst(state) ==
    LET cost    == Max0(Normal(base_cost, cost_std, state))
        units   == Max0(Normal(adjusted_units, units_std, Advance(state, 1)))
        revenue == RMul(adjusted_price, units)
    IN  [profit |-> RSub(revenue, cost), rng |-> Advance(state, 2)]

\* one pass through the body of the loop, from generator state `state`: the
\* profit it appends and the state it leaves the generator in
LoopBody(state) ==
    LET units   == Max0(Normal(adjusted_units, units_std, state))
        cost    == Max0(Normal(base_cost, cost_std, Advance(state, 1)))
        revenue == RMul(adjusted_price, units)
    IN  [profit |-> RSub(revenue, cost), rng |-> Advance(state, 2)]

\* (a range that yields one value too many)
HasNextInclusive(done) == done <= simulation_runs

\* range(simulation_runs) has another value after `done` iterations
HasNext(done) == done < simulation_runs

Iterate ==
    /\ pc = "loop"
    /\ HasNext(i)
    /\ profits' = Append(profits, LoopBody(rng).profit)
    /\ rng' = LoopBody(rng).rng
    /\ i' = i + 1
    /\ UNCHANGED <<pc, widgets, inputs, bases, metrics, outcome, process,
                   found>>

\* the loop is left; the risk metrics of the profits
RiskMetrics ==
    /\ pc = "loop"
    /\ ~HasNext(i)
    /\ expected_profit' = Mean(profits)
    /\ worst_case' = Percentile(profits, 1)
    /\ best_case' = Percentile(profits, 99)
    /\ loss_probability' = LossProbability(profits)
    /\ VaR_95' = Percentile(profits, 5)
    /\ pc' = "verdict"
    /\ UNCHANGED <<rng, widgets, inputs, bases, i, profits, outcome, process,
                   found>>

(***************************************************************************)
(* The strategic verdict.                                                  *)
(***************************************************************************)
HyperGrowth ==
    [verdict |-> "**HYPER-GROWTH MODE**",
     explanation |-> "AI predicts strong upside with controlled downside risk. Scale aggressively."]

Defensive ==
    [verdict |-> "**DEFENSIVE STRATEGY REQUIRED**",
     explanation |-> "Downside risk dominates. Preserve cash, reduce exposure."]

HighRiskHighReward ==
    [verdict |-> "**HIGH-RISK, HIGH-REWARD BET**",
     explanation |-> "Massive upside possible. Suitable only for bold leadership."]

SmartControlledExpansion ==
    [verdict |-> "**SMART CONTROLLED EXPANSION**",
     explanation |-> "Balanced growth with AI-validated safety margins."]

\* latest = df.iloc[-1]
Latest == df[Len(df)]

\* (a chain that tries the high-risk rule before the growth rule)
DecideHighRiskFirst(expected, loss, best, latestProfit, appetite) ==
    IF appetite = "High" /\ RGt(best, RMul(latestProfit, Int2R(2)))
           /\ ~RGt(loss, Int2R(35))
        THEN HighRiskHighReward
    ELSE IF RGt(expected, RMul(latestProfit, Rat(13, 10))) /\ RLt(loss, Int2R(15))
        THEN HyperGrowth
    ELSE IF RGt(loss, Int2R(35))
        THEN Defensive
    ELSE SmartControlledExpansion

\* (a chain whose growth rule forgets the loss probability)
DecideGrowthIgnoresLoss(expected, loss, best, latestProfit, appetite) ==
    IF RGt(expected, RMul(latestProfit, Rat(13, 10)))
        THEN HyperGrowth
    ELSE IF RGt(loss, Int2R(35))
        THEN Defensive
    ELSE IF appetite = "High" /\ RGt(best, RMul(latestProfit, Int2R(2)))
        THEN HighRiskHighReward
    ELSE SmartControlledExpansion

\* (a chain whose high-risk rule lets every appetite but Low through)
DecideNotLow(expected, loss, best, latestProfit, appetite) ==
    IF RGt(expected, RMul(latestProfit, Rat(13, 10))) /\ RLt(loss, Int2R(15))
        THEN HyperGrowth
    ELSE IF RGt(loss, Int2R(35))
        THEN Defensive
    ELSE IF appetite # "Low" /\ RGt(best, RMul(latestProfit, Int2R(2)))
        THEN HighRiskHighReward
    ELSE SmartControlledExpansion

\* the if/elif chain; latestProfit is latest["Profit"]
Decide(expected, loss, best, latestProfit, appetite) ==
    IF RGt(expected, RMul(latestProfit, Rat(13, 10))) /\ RLt(loss, Int2R(15))
        THEN HyperGrowth
    ELSE IF RGt(loss, Int2R(35))
        THEN Defensive
    ELSE IF appetite = "High" /\ RGt(best, RMul(latestProfit, Int2R(2)))
        THEN HighRiskHighReward
    ELSE SmartControlledExpansion

StrategicVerdict ==
    /\ pc = "verdict"
    /\ LET chosen == Decide(expected_profit, loss_probability, best_case,
                            Int2R(Latest.Profit), risk_appetite)
       IN  /\ verdict' = chosen.verdict
           /\ explanation' = chosen.explanation
    /\ pc' = "insight"
    /\ UNCHANGED <<rng, widgets, inputs, bases, i, profits, metrics, insight,
                   process, found>>

\* the chance of success and the upside ratio of the closing insight
ClosingInsight ==
    /\ pc = "insight"
    /\ insight' =
           << RSub(Int2R(100), loss_probability),
              IF RNe(worst_case, Zero) THEN RDiv(best_case, RAbs(worst_case))
              ELSE Zero >>
    /\ pc' = "done"
    /\ UNCHANGED <<rng, widgets, inputs, bases, i, profits, metrics, verdict,
                   explanation, process, found>>

\* Streamlit runs the script again, in the same process, when the user
\* moves one widget (or asks for a rerun): a fresh namespace, that widget's
\* new value, the cached dataset and the generator as the last run left it.
Rerun ==
    /\ pc = "done"
    /\ \E name \in DOMAIN widgets :
           /\ widgets' \in WidgetStates
           /\ \A other \in DOMAIN widgets \ {name} : widgets'[other] = widgets[other]
    /\ found' = 0
    /\ pc' = "inputs"
    /\ price_change' = Unbound /\ marketing_boost' = Unbound
    /\ economic_shock' = Unbound /\ risk_appetite' = "" /\ simulation_runs' = 0
    /\ base_price' = Unbound /\ base_units' = Unbound /\ base_cost' = Unbound
    /\ adjusted_price' = Unbound /\ adjusted_units' = Unbound
    /\ units_std' = Unbound /\ cost_std' = Unbound
    /\ i' = 0 /\ profits' = <<>>
    /\ expected_profit' = Unbound /\ worst_case' = Unbound
    /\ best_case' = Unbound /\ loss_probability' = Unbound /\ VaR_95' = Unbound
    /\ verdict' = "" /\ explanation' = "" /\ insight' = <<>>
    /\ UNCHANGED <<rng, process>>

Next ==
    \/ StrategicInputs
    \/ ScenarioEngine
    \/ Seed
    \/ Iterate
    \/ RiskMetrics
    \/ StrategicVerdict
    \/ ClosingInsight
    \/ Rerun

Spec == Init /\ [][Next]_vars

(***************************************************************************)
(* The verdict as a function of its inputs: a run that has reached the     *)
(* verdict section with any risk metrics, any latest profit and any risk   *)
(* appetite.                                                               *)
(***************************************************************************)
DecideProfits == {-10, 0, 10}

DecideReals ==
    {NaN} \cup {Int2R(k) : k \in {-20, -13, -12, 0, 1, 13, 14, 20, 21}}

DecideLosses ==
    {Int2R(k) : k \in {0, 14, 15, 16, 35, 36, 100}} \cup {Rat(44, 3), Rat(71, 2)}

InitDecide ==
    /\ pc = "verdict"
    /\ df \in { << [Price |-> 1, Units_Sold |-> 1, Total_Cost |-> 1, Profit |-> p] >> :
                p \in DecideProfits }
    /\ deviates \in [RngStates -> {1}]
    /\ rng = 0
    /\ widgets \in {w \in WidgetStates :
                      /\ w.price = 5 /\ w.marketing = 10 /\ w.shock = 0
                      /\ w.runs = 1}
    /\ price_change = Rat(widgets.price, 100)
    /\ marketing_boost = Rat(widgets.marketing, 100)
    /\ economic_shock = Rat(widgets.shock, 100)
    /\ risk_appetite = widgets.risk
    /\ simulation_runs = widgets.runs
    /\ base_price = Unbound /\ base_units = Unbound /\ base_cost = Unbound
    /\ adjusted_price = Unbound /\ adjusted_units = Unbound
    /\ units_std = Unbound /\ cost_std = Unbound
    /\ i = 0 /\ profits = <<>>
    /\ expected_profit \in DecideReals
    /\ worst_case = Unbound
    /\ best_case \in DecideReals
    /\ loss_probability \in DecideLosses
    /\ VaR_95 = Unbound
    /\ verdict = "" /\ explanation = "" /\ insight = <<>>
    /\ found = 0

NextDecide == StrategicVerdict

SpecDecide == InitDecide /\ [][NextDecide]_vars

(***************************************************************************)
(* Properties.                                                             *)
(***************************************************************************)
Sampling == {"loop", "verdict", "insight", "done"}

Measured == {"verdict", "insight", "done"}

Decided == {"insight", "done"}

\* the four rules of the decision table, on the values the verdict section
\* reads
Rule1 ==
    /\ RGt(expected_profit, RMul(Int2R(Latest.Profit), Rat(13, 10)))
    /\ RLt(loss_probability, Int2R(15))

Rule2 == RGt(loss_probability, Int2R(35))

Rule3 ==
    /\ risk_appetite = "High"
    /\ RGt(best_case, RMul(Int2R(Latest.Profit), Int2R(2)))

Matches == <<Rule1, Rule2, Rule3, TRUE>>

\* the verdict and the explanation text of each rule
VerdictTable ==
    << [verdict |-> "**HYPER-GROWTH MODE**",
        explanation |-> "AI predicts strong upside with controlled downside risk. Scale aggressively."],
       [verdict |-> "**DEFENSIVE STRATEGY REQUIRED**",
        explanation |-> "Downside risk dominates. Preserve cash, reduce exposure."],
       [verdict |-> "**HIGH-RISK, HIGH-REWARD BET**",
        explanation |-> "Massive upside possible. Suitable only for bold leadership."],
       [verdict |-> "**SMART CONTROLLED EXPANSION**",
        explanation |-> "Balanced growth with AI-validated safety margins."] >>

FirstMatch ==
    CHOOSE k \in 1 .. 4 : Matches[k] /\ \A j \in 1 .. k - 1 : ~Matches[j]

\* C1: for every combination of expected profit, loss probability, best
\* case, latest actual profit and risk appetite the verdict section yields
\* exactly one of the four verdicts, with that verdict's fixed explanation:
\* the one of the first rule that matches in the order hyper-growth,
\* defensive, high-risk, smart expansion; when rules 1 and 3 both match the
\* verdict is hyper-growth.
C1_FirstMatchingRuleWins ==
    pc \in Decided =>
        /\ verdict = VerdictTable[FirstMatch].verdict
        /\ explanation = VerdictTable[FirstMatch].explanation
        /\ Cardinality({k \in 1 .. 4 : verdict = VerdictTable[k].verdict}) = 1
        /\ (Rule1 /\ Rule3 => verdict = VerdictTable[1].verdict)

C1_Witness ==
    /\ pc = "insight"
    /\ Rule1
    /\ Rule3
    /\ verdict = "**HYPER-GROWTH MODE**"

\* C10: rules 1 and 2 never both match, so the verdict is defensive exactly
\* when the loss probability is above 35, whatever the other inputs are;
\* hyper-growth implies a loss probability below 15, and the high-risk and
\* smart-expansion verdicts imply one of at most 35.
C10_DefensiveIffLossAbove35 ==
    pc \in Decided =>
        /\ ~(Rule1 /\ Rule2)
        /\ (verdict = "**DEFENSIVE STRATEGY REQUIRED**" <=> RGt(loss_probability, Int2R(35)))
        /\ (verdict = "**HYPER-GROWTH MODE**" => RLt(loss_probability, Int2R(15)))
        /\ (verdict \in {"**HIGH-RISK, HIGH-REWARD BET**", "**SMART CONTROLLED EXPANSION**"}
                => ~RLt(Int2R(35), loss_probability) /\ ~IsNaN(loss_probability))

C10_Witness ==
    /\ pc = "insight"
    /\ verdict = "**DEFENSIVE STRATEGY REQUIRED**"
    /\ RGt(expected_profit, RMul(Int2R(Latest.Profit), Rat(13, 10)))
    /\ Rule3

\* C2: the sampling loop ends after exactly simulation_runs iterations and
\* leaves exactly simulation_runs profits: none exists before the loop, each
\* iteration appends one and counts one, the count never passes
\* simulation_runs, the loop is left only when simulation_runs iterations
\* are done, and nothing is appended afterwards.
C2_State ==
    /\ pc \notin Sampling => profits = <<>> /\ i = 0
    /\ pc = "loop" => i <= simulation_runs /\ Len(profits) = i
    /\ pc \in Measured => i = simulation_runs /\ Len(profits) = simulation_runs

C2_Step ==
    /\ pc = "loop" /\ pc' = "loop" => i' = i + 1 /\ Len(profits') = Len(profits) + 1
    /\ pc = "loop" /\ pc' # "loop" => i = simulation_runs /\ profits' = profits
    /\ pc \in Measured /\ pc' \in Measured => profits' = profits

C2_LoopRunsExactlySampleCount == []C2_State /\ [][C2_Step]_vars

C2_Witness ==
    /\ pc = "done"
    /\ simulation_runs = MaxRuns
    /\ Len(profits) = MaxRuns

\* the j-th value the generator yields after it was seeded
Deviate(j) == Int2R(deviates[(SeededState + j - 1) % RngPeriod])

Clamp(x) == IF RLt(x, Zero) THEN Zero ELSE x

\* C3: the k-th profit is adjusted_price * max(0, u) - max(0, c), where u is
\* the (2k-1)-th value drawn since the seed, a units draw, and c the 2k-th, a
\* cost draw; the loop consumes no other draw.
C3_ProfitOfEachIteration ==
    pc \in Sampling =>
        /\ rng = (SeededState + 2 * i) % RngPeriod
        /\ \A k \in 1 .. Len(profits) :
               LET u == RAdd(adjusted_units, RMul(units_std, Deviate(2 * k - 1)))
                   c == RAdd(base_cost, RMul(cost_std, Deviate(2 * k)))
               IN  profits[k] = RSub(RMul(adjusted_price, Clamp(u)), Clamp(c))

\* both draws of the second iteration fall below zero and are clamped, and
\* the two draws of an iteration differ
C3_Witness ==
    /\ pc = "done"
    /\ Len(profits) >= 2
    /\ profits[2] = Zero
    /\ RLt(RAdd(adjusted_units, RMul(units_std, Deviate(3))), Zero)
    /\ RLt(RAdd(base_cost, RMul(cost_std, Deviate(4))), Zero)
    /\ Deviate(1) # Deviate(2)

\* the profits of n iterations of the loop body from generator state `state`
RECURSIVE ProfitsFrom(_, _)
ProfitsFrom(state, n) ==
    IF n = 0 THEN <<>>
    ELSE <<LoopBody(state).profit>> \o ProfitsFrom(LoopBody(state).rng, n - 1)

\* C4: the profits of a run are those of its parameters, the dataset and
\* the seed alone, whatever state earlier runs left the generator in: two
\* runs with the same seed, parameters, profile and sample count give the
\* same sequence.
C4_ProfitsIndependentOfEarlierRuns ==
    pc \in Sampling => profits = ProfitsFrom(SeededState, i)

\* a run that found the generator away from the seeded state, and whose
\* profits would differ had it sampled from the state it found
C4_Witness ==
    /\ pc = "done"
    /\ found # SeededState
    /\ profits # ProfitsFrom(found, simulation_runs)

\* C5: the loss probability is 100 times the number of profits strictly
\* below zero over the sample count, and lies in [0, 100]; a profit of
\* exactly zero is no loss.
C5_LossProbability ==
    pc \in Measured =>
        LET losses == {k \in 1 .. Len(profits) :
                          profits[k].d > 0 /\ profits[k].n < 0}
        IN  /\ loss_probability = Rat(100 * Cardinality(losses), simulation_runs)
            /\ ~RLt(loss_probability, Zero)
            /\ ~RGt(loss_probability, Int2R(100))
            /\ ~IsNaN(loss_probability)

C5_Witness ==
    /\ pc = "done"
    /\ \E k \in 1 .. Len(profits) : profits[k] = Zero
    /\ \E k \in 1 .. Len(profits) : RLt(profits[k], Zero)
    /\ \E k \in 1 .. Len(profits) : RGt(profits[k], Zero)

\* C8: a run with one sample raises no error; its worst case, best case,
\* expected profit and value at risk are all the single profit, and its loss
\* probability is 0 or 100.
C8_SingleSample ==
    pc \in Measured /\ simulation_runs = 1 =>
        /\ Len(profits) = 1
        /\ worst_case = profits[1]
        /\ best_case = profits[1]
        /\ expected_profit = profits[1]
        /\ VaR_95 = profits[1]
        /\ loss_probability \in {Zero, Int2R(100)}

C8_Witness ==
    /\ pc = "done"
    /\ simulation_runs = 1
    /\ loss_probability = Int2R(100)
    /\ verdict = "**DEFENSIVE STRATEGY REQUIRED**"

\* the verdict the run would have reached with another risk appetite
VerdictWith(appetite) ==
    Decide(expected_profit, loss_probability, best_case, Int2R(Latest.Profit),
           appetite).verdict

\* the risk metrics of a sequence of profits
ReportOf(a) ==
    <<Mean(a), Percentile(a, 1), Percentile(a, 99), LossProbability(a),
      Percentile(a, 5)>>

\* C9: risk appetite acts through rule 3 alone: Low and Medium give the same
\* verdict, the high-risk verdict needs appetite High, switching to or from
\* High changes the verdict only between high-risk and smart expansion, and
\* the profits and the risk metrics are those of the other inputs, whatever
\* the appetite.
C9_RiskAppetiteOnlyThroughRule3 ==
    pc \in Decided =>
        /\ verdict = VerdictWith(risk_appetite)
        /\ VerdictWith("Low") = VerdictWith("Medium")
        /\ \A a \in RiskOptions :
               VerdictWith(a) = "**HIGH-RISK, HIGH-REWARD BET**" => a = "High"
        /\ \A a \in RiskOptions :
               VerdictWith(a) # VerdictWith("High") =>
                   /\ VerdictWith("High") = "**HIGH-RISK, HIGH-REWARD BET**"
                   /\ VerdictWith(a) = "**SMART CONTROLLED EXPANSION**"
        /\ profits = ProfitsFrom(SeededState, simulation_runs)
        /\ metrics = ReportOf(ProfitsFrom(SeededState, simulation_runs))

C9_Witness ==
    /\ pc = "done"
    /\ risk_appetite = "High"
    /\ verdict = "**HIGH-RISK, HIGH-REWARD BET**"
    /\ VerdictWith("Medium") = "**SMART CONTROLLED EXPANSION**"

\* C7: with a dataset of one record the run fails before it samples: it
\* never reaches the sampling loop with an undefined standard deviation and
\* produces no verdict.
C7_OneRecordNeverSampled ==
    Len(df) = 1 => pc \notin Sampling /\ verdict = ""

====
